---- MODULE Spec2Model ----
(***************************************************************************)
(* Model of the aros message-passing core:                                 *)
(*   v5_bindings/src/sync/queue.rs   Queue<T> over the kernel queue,       *)
(*                                   QueueCreator1k / QueueCreator16k      *)
(*   v5_traits/src/sync_cell.rs      SyncCell<T>                           *)
(*   v5_stream/src/composed_stream.rs  ComposedStream<S, R>                *)
(* Values of T are tokens 1..NVals; each is an owned resource with one     *)
(* identity, and its memory representation is SizeOfT storage units.       *)
(***************************************************************************)
EXTENDS Integers, Sequences, FiniteSets, Bags, TLC

\* ---- bounds of the model ----
\* tasks sharing the queue, values sent in a run, largest capacity created
NTasks == 2
NVals == 2
MaxCap == 2
\* the same for the runs that use append, prepend and queue_receive only
NValsOrder == 4
MaxCapOrder == 3
\* boxes allocated in a run of the SyncCell
NBoxes == 3
\* operations made on a ComposedStream in a run
MaxOps == 2
\* largest size_of::<T>() a stream is created for, in bytes
MaxElemSize == 2048

\* size_of::<T>() in storage units (each unit holds 0 or 1)
SizeOfT == 3

RECURSIVE Pow2(_)
Pow2(n) == IF n = 0 THEN 1 ELSE 2 * Pow2(n - 1)

Tasks == 1..NTasks
Values == 1..NVals
AllVals == 0..(Pow2(SizeOfT) - 1)
Timeouts == {"zero", "finite", "none"}

VARIABLES
    kernel,      \* the kernel queue object behind Queue.queue
    max_length,  \* Queue.max_length
    calls,       \* the calls tasks are suspended in (a bag, one entry per task)
    last,        \* the call that completed last and what it returned
    sent,        \* values of the successful sends, in kernel order
    prepends,    \* number of successful prepends, kept by the runs of SpecOrder
    delivered,   \* per value: how many successful receives handed it out
    fronted,     \* values prepended onto queued items since the last successful receive
    returned,    \* values a failed send handed back to its caller
    destroyed,   \* per value: how many times its destructor ran
    nextv,       \* next fresh value a task will send
    dropidx,     \* position of Drop for Queue in its body; 0 = not dropped
    deletes,     \* number of queue_delete calls
    uad,         \* a kernel call was made on a deleted handle
    cstate,      \* the SyncCell: "none" before new, "live", "dropped"
    data,        \* SyncCell.data, the AtomicPtr: 0 is null, else a box address
    heap,        \* per box address: "unalloc", the content of the live box, or "freed"
    cpc,         \* per task: the swap it is in, or idle
    clast,       \* the swap that completed last: its argument and what it returned
    installed,   \* the Option given to new or to the latest completed swap
    frees,       \* per box address: how many times the box was freed
    rets,        \* per box address: how many swap calls returned the box
    composed,    \* the ComposedStream: its fields send_stream and receive_stream
    direct,      \* the same two legs, used without the ComposedStream
    cout,        \* what the latest operation on the ComposedStream returned
    dout,        \* what the same operation on the leg itself returned
    creator,     \* the MessageStreamCreator that made the queue: "none", "1k", "16k"
    strong,      \* strong count of the Arc<Queue<T>> made by create_stream
    handles,     \* the handles of create_stream's pair still held
    nullops      \* a kernel call was made on the null handle of a failed queue_create

qvars == <<kernel, max_length, calls, last, sent, prepends, delivered, fronted, returned,
           destroyed, nextv, dropidx, deletes, uad>>

cvars == <<cstate, data, heap, cpc, clast, installed, frees, rets>>

svars == <<composed, direct, cout, dout>>

avars == <<creator, strong, handles, nullops>>

vars == <<qvars, cvars, svars, avars>>

\* what the operations of one component leave alone
notQueue == <<cvars, svars, avars>>

notCell == <<qvars, svars, avars>>

notComposed == <<qvars, cvars, avars>>

\* ---- representation of a value in memory ----
\* &item as *const T as *const c_void: the units of the value
ToBytes(v) == [i \in 1..SizeOfT |-> (v \div Pow2(i - 1)) % 2]

RECURSIVE FromBytes(_)
\* out.assume_init(): the units of the buffer read back as a T
FromBytes(b) == IF b = <<>> THEN 0 ELSE Head(b) + 2 * FromBytes(Tail(b))

\* MaybeUninit::uninit(): n units of unspecified content
Uninit(n) == [1..n -> {0, 1}]

\* ---- the kernel queue primitive ----
NoKernel == [state |-> "none", cap |-> 0, size |-> 0, items |-> <<>>]

queue_create(length, item_size) ==
    [state |-> "live", cap |-> length, size |-> item_size, items |-> <<>>]

HasRoom(k) == Len(k.items) < k.cap

HasItem(k) == Len(k.items) > 0

queue_append(k, bytes) == [k EXCEPT !.items = Append(@, SubSeq(bytes, 1, k.size))]

queue_prepend(k, bytes) == [k EXCEPT !.items = <<SubSeq(bytes, 1, k.size)>> \o @]

queue_recv(k) == [k EXCEPT !.items = Tail(@)]

queue_peek(k) == k

queue_front(k) == Head(k.items)

queue_get_waiting(k) == Len(k.items)

queue_delete(k) == [k EXCEPT !.state = "deleted", !.items = <<>>]

\* queue_create when the kernel has no memory for the queue: the null handle
queue_create_null == [state |-> "null", cap |-> 0, size |-> 0, items |-> <<>>]

\* option_to_timeout: None waits forever, Some(0) does not wait
option_to_timeout(to) == to

\* ---- SyncCell<T> ----
CellVals == {"a", "b"}

Boxes == 1..NBoxes

None == [some |-> FALSE, box |-> 0]

Some(b) == [some |-> TRUE, box |-> b]

IdleC == [busy |-> FALSE, arg |-> None, new |-> 0]

\* SyncCell::new / SyncCell::swap: None becomes null_mut(), Some(b) Box::leak(b)
into_ptr(opt) == IF opt.some THEN opt.box ELSE 0

\* SyncCell::swap returning None for every pointer taken: the box is never rebuilt
from_ptr_forgets(ptr) == None

\* SyncCell::swap: null becomes None, any other pointer Some(Box::from_raw(ptr))
from_ptr(ptr) == IF ptr = 0 THEN None ELSE Some(ptr)

\* a read of the pointer that does not store the new one
exchange_no_store(old, new) == [taken |-> old, stored |-> old]

\* an exchange that hands the caller the pointer it has just stored
exchange_returns_new(old, new) == [taken |-> new, stored |-> new]

\* AtomicPtr::swap(new, SeqCst): one indivisible read-and-write
exchange(old, new) == [taken |-> old, stored |-> new]

\* the box addresses not yet handed out by the allocator
FreshBoxes == {b \in Boxes : heap[b] = "unalloc"}

\* the Options a caller can pass: None, or a newly allocated box with some content
NewBox == IF FreshBoxes = {} THEN 0
          ELSE CHOOSE b \in FreshBoxes : \A c \in FreshBoxes : b <= c

CellInit ==
    /\ cstate = "none"
    /\ data = 0
    /\ heap = [b \in Boxes |-> "unalloc"]
    /\ cpc = [t \in Tasks |-> IdleC]
    /\ clast = [arg |-> None, ret |-> None]
    /\ installed = None
    /\ frees = [b \in Boxes |-> 0]
    /\ rets = [b \in Boxes |-> 0]

\* SyncCell::new(None)
CellNewEmpty ==
    /\ cstate = "none"
    /\ cstate' = "live"
    /\ data' = into_ptr(None)
    /\ installed' = None
    /\ UNCHANGED <<heap, cpc, clast, frees, rets>>
    /\ UNCHANGED notCell

\* SyncCell::new(Some(Box::new(v)))
CellNewSome(v) ==
    /\ cstate = "none"
    /\ NewBox # 0
    /\ cstate' = "live"
    /\ heap' = [heap EXCEPT ![NewBox] = v]
    /\ data' = into_ptr(Some(NewBox))
    /\ installed' = Some(NewBox)
    /\ UNCHANGED <<cpc, clast, frees, rets>>
    /\ UNCHANGED notCell

\* swap(None) is entered
SwapNoneCall(t) ==
    /\ cstate = "live"
    /\ ~cpc[t].busy
    /\ cpc' = [cpc EXCEPT ![t] = [busy |-> TRUE, arg |-> None, new |-> into_ptr(None)]]
    /\ UNCHANGED <<cstate, data, heap, clast, installed, frees, rets>>
    /\ UNCHANGED notCell

\* swap(Some(Box::new(v))) is entered: the box is leaked to a raw pointer
SwapSomeCall(t, v) ==
    /\ cstate = "live"
    /\ ~cpc[t].busy
    /\ NewBox # 0
    /\ heap' = [heap EXCEPT ![NewBox] = v]
    /\ cpc' = [cpc EXCEPT ![t] = [busy |-> TRUE, arg |-> Some(NewBox),
                                  new |-> into_ptr(Some(NewBox))]]
    /\ UNCHANGED <<cstate, data, clast, installed, frees, rets>>
    /\ UNCHANGED notCell

\* the atomic exchange of swap, and its return
SwapExchange(t) ==
    /\ cpc[t].busy
    /\ LET x == exchange(data, cpc[t].new) IN
       /\ data' = x.stored
       /\ clast' = [arg |-> cpc[t].arg, ret |-> from_ptr(x.taken)]
       /\ rets' = IF from_ptr(x.taken).some THEN [rets EXCEPT ![x.taken] = @ + 1] ELSE rets
    /\ installed' = cpc[t].arg
    /\ cpc' = [cpc EXCEPT ![t] = IdleC]
    /\ UNCHANGED <<cstate, heap, frees>>
    /\ UNCHANGED notCell

\* Drop for SyncCell: swap(None), and the returned Option is dropped
CellDrop ==
    /\ cstate = "live"
    /\ \A t \in Tasks : ~cpc[t].busy
    /\ LET x == exchange(data, into_ptr(None))
           ret == from_ptr(x.taken) IN
       /\ data' = x.stored
       /\ clast' = [arg |-> None, ret |-> ret]
       /\ heap' = IF ret.some THEN [heap EXCEPT ![ret.box] = "freed"] ELSE heap
       /\ frees' = IF ret.some THEN [frees EXCEPT ![ret.box] = @ + 1] ELSE frees
    /\ installed' = None
    /\ cstate' = "dropped"
    /\ UNCHANGED <<cpc, rets>>
    /\ UNCHANGED notCell

NextCell ==
    \/ CellNewEmpty
    \/ \E v \in CellVals : CellNewSome(v)
    \/ \E t \in Tasks : SwapNoneCall(t)
    \/ \E t \in Tasks, v \in CellVals : SwapSomeCall(t, v)
    \/ \E t \in Tasks : SwapExchange(t)
    \/ CellDrop

\* ---- ComposedStream<S, R> ----
\* a leg is any stream object: its state is the calls made on it so far, and what
\* a call returns (buffers it fills included) is fixed by the leg, that state, the
\* method and the arguments
Leg(id) == [id |-> id, calls |-> <<>>]

LegCall(leg, method, args) ==
    [leg |-> [leg EXCEPT !.calls = Append(@, <<method, args>>)],
     out |-> <<leg.id, Len(leg.calls), method, args>>]

SendMethods == {"send", "send_slice", "send_vec",
                "send_timeout", "send_slice_timeout", "send_vec_timeout"}

RecvMethods == {"try_receive", "receive", "receive_slice", "receive_all", "receive_vec",
                "receive_timeout", "receive_slice_timeout", "receive_vec_timeout"}

Durations == {"zero", "finite"}

Slices == {<<>>, <<1, 2>>}

\* the argument lists a caller can pass to each method
Args(method) ==
    CASE method = "send" -> {<<v>> : v \in {1, 2}}
      [] method \in {"send_slice", "send_vec"} -> {<<d>> : d \in Slices}
      [] method = "send_timeout" -> {<<v, to, "uf">> : v \in {1, 2}, to \in Durations}
      [] method \in {"send_slice_timeout", "send_vec_timeout"} ->
             {<<d, to, "uf">> : d \in Slices, to \in Durations}
      [] method \in {"try_receive", "receive"} -> {<<>>}
      [] method \in {"receive_slice", "receive_all", "receive_vec"} -> {<<n>> : n \in {0, 2}}
      [] method = "receive_timeout" -> {<<to, "uf">> : to \in Durations}
      [] method \in {"receive_slice_timeout", "receive_vec_timeout"} ->
             {<<n, to, "uf">> : n \in {0, 2}, to \in Durations}

\* ComposedStream::new
ComposedStream_new(send_stream, receive_stream) ==
    [send_stream |-> send_stream, receive_stream |-> receive_stream]

\* a ComposedStream whose timeout methods forget the timeout
DelegateUntimed ==
    [send |-> <<"send_stream", "send">>,
     send_slice |-> <<"send_stream", "send_slice">>,
     send_vec |-> <<"send_stream", "send_vec">>,
     send_timeout |-> <<"send_stream", "send">>,
     send_slice_timeout |-> <<"send_stream", "send_slice">>,
     send_vec_timeout |-> <<"send_stream", "send_vec">>,
     try_receive |-> <<"receive_stream", "try_receive">>,
     receive |-> <<"receive_stream", "receive">>,
     receive_slice |-> <<"receive_stream", "receive_slice">>,
     receive_all |-> <<"receive_stream", "receive_all">>,
     receive_vec |-> <<"receive_stream", "receive_vec">>,
     receive_timeout |-> <<"receive_stream", "receive">>,
     receive_slice_timeout |-> <<"receive_stream", "receive_slice">>,
     receive_vec_timeout |-> <<"receive_stream", "receive_vec">>]

\* the body of each method of ComposedStream: the field it uses and the method
\* it calls on it, with the arguments it was given
Delegate ==
    [send |-> <<"send_stream", "send">>,
     send_slice |-> <<"send_stream", "send_slice">>,
     send_vec |-> <<"send_stream", "send_vec">>,
     send_timeout |-> <<"send_stream", "send_timeout">>,
     send_slice_timeout |-> <<"send_stream", "send_slice_timeout">>,
     send_vec_timeout |-> <<"send_stream", "send_vec_timeout">>,
     try_receive |-> <<"receive_stream", "try_receive">>,
     receive |-> <<"receive_stream", "receive">>,
     receive_slice |-> <<"receive_stream", "receive_slice">>,
     receive_all |-> <<"receive_stream", "receive_all">>,
     receive_vec |-> <<"receive_stream", "receive_vec">>,
     receive_timeout |-> <<"receive_stream", "receive_timeout">>,
     receive_slice_timeout |-> <<"receive_stream", "receive_slice_timeout">>,
     receive_vec_timeout |-> <<"receive_stream", "receive_vec_timeout">>]

\* a method of the ComposedStream is called
ComposedCall(cs, method, args) ==
    LET field == Delegate[method][1]
        r == LegCall(cs[field], Delegate[method][2], args) IN
    [cs |-> [cs EXCEPT ![field] = r.leg], out |-> r.out]

\* the method is called on the leg itself
DirectCall(legs, method, args) ==
    LET field == IF method \in SendMethods THEN "send_stream" ELSE "receive_stream"
        r == LegCall(legs[field], method, args) IN
    [cs |-> [legs EXCEPT ![field] = r.leg], out |-> r.out]

NoOut == <<>>

OpsDone(cs) == Len(cs.send_stream.calls) + Len(cs.receive_stream.calls)

ComposedInit ==
    /\ composed = ComposedStream_new(Leg("S"), Leg("R"))
    /\ direct = [send_stream |-> Leg("S"), receive_stream |-> Leg("R")]
    /\ cout = NoOut
    /\ dout = NoOut

\* one operation on the ComposedStream, and the same one on the legs used directly
ComposedOp(method, args) ==
    /\ OpsDone(direct) < MaxOps
    /\ args \in Args(method)
    /\ composed' = ComposedCall(composed, method, args).cs
    /\ cout' = ComposedCall(composed, method, args).out
    /\ direct' = DirectCall(direct, method, args).cs
    /\ dout' = DirectCall(direct, method, args).out
    /\ UNCHANGED notComposed

NextComposed == \E method \in SendMethods \cup RecvMethods :
                    \E args \in Args(method) : ComposedOp(method, args)

\* ---- Queue<T>: the typed wrapper ----
Call(op, api, v, to) == [op |-> op, api |-> api, v |-> v, to |-> to,
                         start |-> {}, nsent |-> 0, nrecv |-> 0, turns |-> 0]

NoRes == [api |-> "", kind |-> "", v |-> 0, arg |-> 0]

Res(api, kind, v) == [NoRes EXCEPT !.api = api, !.kind = kind, !.v = v]

SendApis == {"append", "prepend", "send", "send_timeout"}

RecvApis == {"queue_receive", "peek", "try_receive", "receive", "receive_timeout"}

\* send and receive passing Some(zero) where the code passes None
ApiTimeoutsNoWait(api) ==
    CASE api \in {"append", "prepend", "queue_receive", "peek"} -> Timeouts
      [] api \in {"send", "receive"} -> {"zero"}
      [] api = "try_receive" -> {"zero"}
      [] api \in {"send_timeout", "receive_timeout"} -> {"zero", "finite"}

\* the timeout argument each entry point hands to the kernel call
ApiTimeouts(api) ==
    CASE api \in {"append", "prepend", "queue_receive", "peek"} -> Timeouts
      [] api \in {"send", "receive"} -> {"none"}
      [] api = "try_receive" -> {"zero"}
      [] api \in {"send_timeout", "receive_timeout"} -> {"zero", "finite"}

\* Queue::new creating the kernel queue one storage unit short per item
new_short_item(length) ==
    [queue |-> queue_create(length, SizeOfT - 1), max_length |-> length]

\* Queue::new
new(length) == [queue |-> queue_create(length, SizeOfT), max_length |-> length]

\* Queue::prepend calling queue_append
prepend_call_back(k, bytes) == queue_append(k, bytes)

\* Queue::prepend, the kernel call
prepend_call(k, bytes) == queue_prepend(k, bytes)

\* Queue::append calling queue_prepend
append_call_front(k, bytes) == queue_prepend(k, bytes)

\* Queue::append, the kernel call
append_call(k, bytes) == queue_append(k, bytes)

\* Queue::append / Queue::prepend, what becomes of item after the kernel call:
\* forget(item) on success runs no destructor, Err(item) moves it to the caller
item_after_send(d, ok, v) == d

\* Queue::append / Queue::prepend with the branches of the kernel result swapped
send_result_swapped(ok, v) == IF ok THEN Res("", "Err", v) ELSE Res("", "Ok", 0)

\* Queue::append / Queue::prepend, the returned Result
send_result(ok, v) == IF ok THEN Res("", "Ok", 0) ELSE Res("", "Err", v)

\* the entry points built on append
SendKernel(api, k, bytes) ==
    IF api = "prepend" THEN prepend_call(k, bytes) ELSE append_call(k, bytes)

SendOp(api) == IF api = "prepend" THEN "prepend" ELSE "append"

\* SendStream::send returning normally whatever append returned
SendResultLenient(api, ok, v) ==
    LET r == send_result(ok, v) IN
    CASE api = "send" -> Res(api, "Unit", 0)
      [] api = "send_timeout" ->
            IF r.kind = "Ok" THEN Res(api, "None", 0) ELSE Res(api, "Some", r.v)
      [] OTHER -> [r EXCEPT !.api = api]

\* SendStream::send / SendTimeoutStream::send_timeout / append / prepend
SendResult(api, ok, v) ==
    LET r == send_result(ok, v) IN
    CASE api = "send" ->
            IF r.kind = "Ok" THEN Res(api, "Unit", 0) ELSE Res(api, "Panic", 0)
      [] api = "send_timeout" ->
            IF r.kind = "Ok" THEN Res(api, "None", 0) ELSE Res(api, "Some", r.v)
      [] OTHER -> [r EXCEPT !.api = api]

\* Queue::queue_receive calling queue_peek, which leaves the item queued
receive_call_keeps(k) == queue_peek(k)

\* Queue::queue_receive, the kernel call
receive_call(k) == queue_recv(k)

\* Queue::peek calling queue_recv, which takes the item out
peek_call_removes(k) == queue_recv(k)

\* Queue::peek, the kernel call
peek_call(k) == queue_peek(k)

RecvKernel(api, k) == IF api = "peek" THEN peek_call(k) ELSE receive_call(k)

\* Queue::queue_receive reading the buffer without looking at the kernel result
receive_result_unchecked(ok, v) == Res("", "Some", v)

\* Queue::queue_receive / Queue::peek, the returned Option
receive_result(ok, v) == IF ok THEN Res("", "Some", v) ELSE Res("", "None", 0)

\* ReceiveStream::receive unwraps, the others return the Option
RecvResult(api, ok, v) ==
    LET r == receive_result(ok, v) IN
    CASE api = "receive" ->
            IF r.kind = "Some" THEN Res(api, "Val", r.v) ELSE Res(api, "Panic", 0)
      [] OTHER -> [r EXCEPT !.api = api]

\* Queue::clear with if let in place of while let
clear_once(turns, some) == some /\ turns = 0

\* Queue::clear, the loop condition: while let Some(item) = queue_receive(zero)
clear_again(turns, some) == some

\* Queue::len
len == queue_get_waiting(kernel)

\* Queue::max_len reporting the items waiting
max_len_waiting == queue_get_waiting(kernel)

\* Queue::max_len
max_len == max_length

\* values resident in the kernel queue, front first
Resident == [i \in 1..Len(kernel.items) |-> FromBytes(kernel.items[i])]

Range(s) == {s[i] : i \in 1..Len(s)}

RECURSIVE SumUpTo(_, _)
SumUpTo(f, n) == IF n < 0 THEN 0 ELSE f[n] + SumUpTo(f, n - 1)

\* number of successful receives so far
nrecv == SumUpTo(delivered, Pow2(SizeOfT) - 1)

Bag1(c) == SetToBag({c})

\* some task is free to make a call on the queue
CanCall == kernel.state = "live" /\ dropidx = 0 /\ BagCardinality(calls) < NTasks

Init ==
    /\ kernel = NoKernel
    /\ max_length = 0
    /\ calls = EmptyBag
    /\ last = NoRes
    /\ sent = <<>>
    /\ prepends = 0
    /\ delivered = [v \in AllVals |-> 0]
    /\ fronted = {}
    /\ returned = {}
    /\ destroyed = [v \in AllVals |-> 0]
    /\ nextv = 1
    /\ dropidx = 0
    /\ deletes = 0
    /\ uad = FALSE
    /\ CellInit
    /\ ComposedInit
    /\ creator = "none"
    /\ strong = 0
    /\ handles = {}
    /\ nullops = FALSE

\* Queue::new(c)
New(c) ==
    /\ kernel.state = "none"
    /\ kernel' = new(c).queue
    /\ max_length' = new(c).max_length
    /\ UNCHANGED <<calls, last, sent, prepends, delivered, fronted, returned, destroyed,
                   nextv, dropidx, deletes, uad>>
    /\ UNCHANGED notQueue

\* the kernel took the item; hist: the run keeps the count of prepends, which
\* the ordering properties read
SendDone(api, v, hist) ==
    /\ kernel' = SendKernel(api, kernel, ToBytes(v))
    /\ sent' = Append(sent, v)
    /\ prepends' = IF hist /\ SendOp(api) = "prepend" THEN prepends + 1 ELSE prepends
    /\ fronted' = IF api = "prepend" /\ HasItem(kernel) THEN fronted \cup {v} ELSE fronted
    /\ destroyed' = item_after_send(destroyed, TRUE, v)
    /\ last' = [SendResult(api, TRUE, v) EXCEPT !.arg = v]
    /\ UNCHANGED returned

\* the kernel call returned false
SendFailed(api, v) ==
    /\ destroyed' = item_after_send(destroyed, FALSE, v)
    /\ last' = [SendResult(api, FALSE, v) EXCEPT !.arg = v]
    /\ returned' = IF last'.kind \in {"Err", "Some"} THEN returned \cup {last'.v}
                   ELSE returned
    /\ UNCHANGED <<kernel, sent, prepends, fronted>>

\* append / prepend / send / send_timeout called with a fresh value
Send(api, to, maxv, hist) ==
    /\ CanCall
    /\ to \in ApiTimeouts(api)
    /\ nextv <= maxv
    /\ nextv' = nextv + 1
    /\ IF HasRoom(kernel)
         THEN SendDone(api, nextv, hist) /\ UNCHANGED calls
         ELSE IF option_to_timeout(to) = "zero"
           THEN SendFailed(api, nextv) /\ UNCHANGED calls
           ELSE /\ calls' = calls (+) Bag1(Call("send", api, nextv, to))
                /\ UNCHANGED <<kernel, sent, prepends, fronted, returned, destroyed, last>>
    /\ UNCHANGED <<max_length, delivered, dropidx, deletes, uad>>
    /\ UNCHANGED notQueue

\* a suspended sender is woken because a slot is free
SendWake(c, hist) ==
    /\ c.op = "send"
    /\ HasRoom(kernel)
    /\ SendDone(c.api, c.v, hist)
    /\ calls' = calls (-) Bag1(c)
    /\ UNCHANGED <<max_length, delivered, nextv, dropidx, deletes, uad>>
    /\ UNCHANGED notQueue

\* a suspended sender's finite timeout expires with the queue still full
SendTimeout(c) ==
    /\ c.op = "send"
    /\ c.to = "finite"
    /\ ~HasRoom(kernel)
    /\ SendFailed(c.api, c.v)
    /\ calls' = calls (-) Bag1(c)
    /\ UNCHANGED <<max_length, delivered, nextv, dropidx, deletes, uad>>
    /\ UNCHANGED notQueue

\* the kernel copied the front item into the caller's buffer
RecvDone(api) ==
    \E g \in Uninit(SizeOfT - kernel.size) :
        LET val == FromBytes(queue_front(kernel) \o g) IN
        /\ kernel' = RecvKernel(api, kernel)
        /\ delivered' = IF api = "peek" THEN delivered
                        ELSE [delivered EXCEPT ![val] = @ + 1]
        /\ fronted' = IF api = "peek" THEN fronted ELSE {}
        /\ last' = RecvResult(api, TRUE, val)

RecvFailed(api) ==
    /\ last' = RecvResult(api, FALSE, 0)
    /\ UNCHANGED <<kernel, delivered, fronted>>

\* queue_receive / peek / try_receive / receive / receive_timeout called
Receive(api, to) ==
    /\ CanCall
    /\ to \in ApiTimeouts(api)
    /\ IF HasItem(kernel)
         THEN RecvDone(api) /\ UNCHANGED calls
         ELSE IF option_to_timeout(to) = "zero"
           THEN RecvFailed(api) /\ UNCHANGED calls
           ELSE /\ calls' = calls (+) Bag1(Call("recv", api, 0, to))
                /\ UNCHANGED <<kernel, delivered, fronted, last>>
    /\ UNCHANGED <<max_length, sent, prepends, returned, destroyed, nextv, dropidx, deletes, uad>>
    /\ UNCHANGED notQueue

\* a suspended receiver is woken because an item is queued
RecvWake(c) ==
    /\ c.op = "recv"
    /\ HasItem(kernel)
    /\ RecvDone(c.api)
    /\ calls' = calls (-) Bag1(c)
    /\ UNCHANGED <<max_length, sent, prepends, returned, destroyed, nextv, dropidx, deletes, uad>>
    /\ UNCHANGED notQueue

\* a suspended receiver's finite timeout expires with the queue still empty
RecvTimeout(c) ==
    /\ c.op = "recv"
    /\ c.to = "finite"
    /\ ~HasItem(kernel)
    /\ RecvFailed(c.api)
    /\ calls' = calls (-) Bag1(c)
    /\ UNCHANGED <<max_length, sent, prepends, returned, destroyed, nextv, dropidx, deletes, uad>>
    /\ UNCHANGED notQueue

\* Queue::clear is entered
ClearCall ==
    /\ CanCall
    /\ calls' = calls (+) Bag1([Call("clear", "clear", 0, "zero") EXCEPT
                                   !.start = Range(Resident), !.nsent = Len(sent),
                                   !.nrecv = nrecv])
    /\ UNCHANGED <<kernel, max_length, last, sent, prepends, delivered, fronted, returned,
                   destroyed, nextv, dropidx, deletes, uad>>
    /\ UNCHANGED notQueue

\* one turn of clear's loop: queue_receive with zero timeout, then drop(item);
\* clear is called by a task, or by Drop for Queue
ClearLoop(c) ==
    /\ c.op = "clear"
    /\ IF clear_again(c.turns, kernel.state = "live" /\ HasItem(kernel))
         THEN \E g \in Uninit(SizeOfT - kernel.size) :
                LET val == FromBytes(queue_front(kernel) \o g) IN
                /\ kernel' = receive_call(kernel)
                /\ delivered' = [delivered EXCEPT ![val] = @ + 1]
                /\ fronted' = {}
                /\ destroyed' = [destroyed EXCEPT ![val] = @ + 1]
                /\ calls' = (calls (-) Bag1(c)) (+) Bag1([c EXCEPT !.turns = @ + 1])
                /\ UNCHANGED <<last, dropidx, uad>>
         ELSE /\ last' = Res(c.api, "Unit", 0)
              /\ calls' = calls (-) Bag1(c)
              /\ dropidx' = IF c.api = "drop" THEN dropidx + 1 ELSE dropidx
              /\ uad' = (uad \/ kernel.state = "deleted")
              /\ UNCHANGED <<kernel, delivered, fronted, destroyed>>
    /\ UNCHANGED <<max_length, sent, prepends, returned, nextv, deletes>>
    /\ UNCHANGED notQueue

\* Drop for Queue releasing the handle before draining
DropOrderDeleteFirst == <<"delete", "clear">>

\* Drop for Queue: the body, in order
DropOrder == <<"clear", "delete">>

\* the owner lets the queue go out of scope; no borrow of it is left
DropCall ==
    /\ kernel.state = "live"
    /\ dropidx = 0
    /\ calls = EmptyBag
    /\ dropidx' = 1
    /\ UNCHANGED <<kernel, max_length, calls, last, sent, prepends, delivered, fronted,
                   returned, destroyed, nextv, deletes, uad>>
    /\ UNCHANGED notQueue

\* the next statement of drop: self.clear() is entered, or queue_delete
DropStep ==
    /\ dropidx \in 1..Len(DropOrder)
    /\ calls = EmptyBag
    /\ IF DropOrder[dropidx] = "clear"
         THEN /\ calls' = Bag1([Call("clear", "drop", 0, "zero") EXCEPT
                                   !.start = Range(Resident), !.nsent = Len(sent),
                                   !.nrecv = nrecv])
              /\ UNCHANGED <<kernel, dropidx, deletes, uad>>
         ELSE /\ kernel' = queue_delete(kernel)
              /\ deletes' = deletes + 1
              /\ dropidx' = dropidx + 1
              /\ uad' = (uad \/ kernel.state = "deleted")
              /\ UNCHANGED calls
    /\ UNCHANGED <<max_length, last, sent, prepends, delivered, fronted, returned,
                   destroyed, nextv>>
    /\ UNCHANGED notQueue

\* ---- QueueCreator1k / QueueCreator16k ----
\* a << n on u32; the presets shift 1 by at most 15 bits, so no bit is lost
shl(a, n) == a * Pow2(n)

\* Queue::new for an element type of the given size
new_sized(size_of_T, length) ==
    [queue |-> queue_create(length, size_of_T), max_length |-> length]

\* the argument of Queue::new in QueueCreator1k::create_stream:
\* 1 << 10 / size_of::<T>() + 1, where / binds tighter than +, and + than <<
length_1k(size_of_T) == shl(1, (10 \div size_of_T) + 1)

\* the argument of Queue::new in QueueCreator16k::create_stream
length_16k(size_of_T) == shl(1, (14 \div size_of_T) + 1)

preset_length(which, size_of_T) ==
    IF which = "1k" THEN length_1k(size_of_T) ELSE length_16k(size_of_T)

Creators == {"1k", "16k"}

\* Arc::new: one owner
arc_new == 1

\* a second handle made without counting it
arc_clone_uncounted(count) == count

\* Arc::clone: one owner more
arc_clone(count) == count + 1

\* Arc's drop: one owner fewer; the Queue is dropped when none is left
arc_drop(count) == count - 1

\* create_stream for an element type of size_of_T bytes:
\* Arc::new(Queue::new(..)), then (queue.clone(), queue)
create_stream(which, size_of_T) ==
    /\ kernel.state = "none"
    /\ creator = "none"
    /\ kernel' = new_sized(size_of_T, preset_length(which, size_of_T)).queue
    /\ max_length' = new_sized(size_of_T, preset_length(which, size_of_T)).max_length
    /\ creator' = which
    /\ strong' = arc_clone(arc_new)
    /\ handles' = {"sender", "receiver"}
    /\ UNCHANGED nullops
    /\ UNCHANGED <<calls, last, sent, prepends, delivered, fronted, returned, destroyed,
                   nextv, dropidx, deletes, uad>>
    /\ UNCHANGED <<cvars, svars>>

\* create_stream for every element size
NextCreator == \E which \in Creators, size_of_T \in 1..MaxElemSize :
                   create_stream(which, size_of_T)

SpecCreator == Init /\ [][NextCreator]_vars

\* the calls in flight through a handle: sends go through the sender, receives
\* through the receiver
InFlight(h) == {c \in BagToSet(calls) : c.op = (IF h = "sender" THEN "send" ELSE "recv")}

\* a handle of the pair goes out of scope; the last one drops the Queue
DropHandle(h) ==
    /\ h \in handles
    /\ InFlight(h) = {}
    /\ dropidx = 0
    /\ strong' = arc_drop(strong)
    /\ handles' = handles \ {h}
    /\ dropidx' = IF arc_drop(strong) = 0 THEN 1 ELSE dropidx
    /\ UNCHANGED <<kernel, max_length, calls, last, sent, prepends, delivered, fronted,
                   returned, destroyed, nextv, deletes, uad, creator, nullops>>
    /\ UNCHANGED <<cvars, svars>>

\* the pair made by create_stream in use: sends through the sender, receives
\* through the receiver, and the handles dropped in any order
NextStream ==
    \/ \E which \in Creators : create_stream(which, SizeOfT)
    \/ \E api \in SendApis, to \in Timeouts :
          "sender" \in handles /\ Send(api, to, NVals, FALSE)
    \/ \E api \in RecvApis, to \in Timeouts :
          "receiver" \in handles /\ Receive(api, to)
    \/ \E c \in BagToSet(calls) : RecvWake(c)
    \/ \E c \in BagToSet(calls) : RecvTimeout(c)
    \/ \E h \in {"sender", "receiver"} : DropHandle(h)
    \/ \E c \in BagToSet(calls) : ClearLoop(c)
    \/ DropStep

SpecStream == Init /\ [][NextStream]_vars

\* ---- Queue::new when the kernel cannot allocate ----
\* Queue::new stores whatever queue_create returned
new_unallocated(length) == [queue |-> queue_create_null, max_length |-> length]

\* Queue::new(c), and the kernel has no memory for the queue
NewFails(c) ==
    /\ kernel.state = "none"
    /\ kernel' = new_unallocated(c).queue
    /\ max_length' = new_unallocated(c).max_length
    /\ UNCHANGED <<calls, last, sent, prepends, delivered, fronted, returned, destroyed,
                   nextv, dropidx, deletes, uad>>
    /\ UNCHANGED notQueue

\* a method of the Queue whose handle is null: the kernel call is made on the
\* null handle, and what it does is not defined, so any outcome is taken
NullCall(api) ==
    /\ kernel.state = "null"
    /\ dropidx = 0
    /\ nullops' = TRUE
    /\ \E ok \in BOOLEAN, g \in Uninit(SizeOfT) :
         last' = CASE api \in SendApis -> [SendResult(api, ok, nextv) EXCEPT !.arg = nextv]
                   [] api \in RecvApis -> RecvResult(api, ok, FromBytes(g))
                   [] OTHER -> Res(api, "Val", FromBytes(g))
    /\ UNCHANGED <<kernel, max_length, calls, sent, prepends, delivered, fronted, returned,
                   destroyed, nextv, dropidx, deletes, uad>>
    /\ UNCHANGED <<cvars, svars, creator, strong, handles>>

\* the Queue whose handle is null is dropped: clear, then queue_delete(null)
NullDrop ==
    /\ kernel.state = "null"
    /\ dropidx = 0
    /\ nullops' = TRUE
    /\ dropidx' = Len(DropOrder) + 1
    /\ deletes' = deletes + 1
    /\ last' = Res("drop", "Unit", 0)
    /\ UNCHANGED <<kernel, max_length, calls, sent, prepends, delivered, fronted, returned,
                   destroyed, nextv, uad>>
    /\ UNCHANGED <<cvars, svars, creator, strong, handles>>

\* ---- a kernel that fails a call that waits forever ----
\* the kernel call of a sender suspended without timeout returns false with the
\* queue still full
SendFault(c) ==
    /\ c.op = "send"
    /\ c.to = "none"
    /\ ~HasRoom(kernel)
    /\ SendFailed(c.api, c.v)
    /\ calls' = calls (-) Bag1(c)
    /\ UNCHANGED <<max_length, delivered, nextv, dropidx, deletes, uad>>
    /\ UNCHANGED notQueue

\* the kernel call of a receiver suspended without timeout returns false with
\* the queue still empty
RecvFault(c) ==
    /\ c.op = "recv"
    /\ c.to = "none"
    /\ ~HasItem(kernel)
    /\ RecvFailed(c.api)
    /\ calls' = calls (-) Bag1(c)
    /\ UNCHANGED <<max_length, sent, prepends, returned, destroyed, nextv, dropidx, deletes, uad>>
    /\ UNCHANGED notQueue

Next ==
    \/ \E c \in 1..MaxCap : New(c)
    \/ \E api \in SendApis, to \in Timeouts : Send(api, to, NVals, FALSE)
    \/ \E c \in BagToSet(calls) : SendWake(c, FALSE)
    \/ \E c \in BagToSet(calls) : SendTimeout(c)
    \/ \E api \in RecvApis, to \in Timeouts : Receive(api, to)
    \/ \E c \in BagToSet(calls) : RecvWake(c)
    \/ \E c \in BagToSet(calls) : RecvTimeout(c)
    \/ ClearCall
    \/ \E c \in BagToSet(calls) : ClearLoop(c)
    \/ DropCall
    \/ DropStep

Spec == Init /\ [][Next]_vars

\* runs in which tasks use append, prepend and queue_receive only
NextOrder ==
    \/ \E c \in 1..MaxCapOrder : New(c)
    \/ \E api \in {"append", "prepend"}, to \in Timeouts : Send(api, to, NValsOrder, TRUE)
    \/ \E c \in BagToSet(calls) : SendWake(c, TRUE)
    \/ \E c \in BagToSet(calls) : SendTimeout(c)
    \/ \E to \in Timeouts : Receive("queue_receive", to)
    \/ \E c \in BagToSet(calls) : RecvWake(c)
    \/ \E c \in BagToSet(calls) : RecvTimeout(c)

SpecOrder == Init /\ [][NextOrder]_vars

\* runs in which the kernel may fail to allocate the queue
NextAlloc ==
    \/ Next
    \/ \E c \in 1..MaxCap : NewFails(c)
    \/ \E api \in SendApis \cup RecvApis \cup {"len"} : NullCall(api)
    \/ NullDrop

SpecAlloc == Init /\ [][NextAlloc]_vars

\* runs in which the kernel may fail a call that waits forever
NextFault ==
    \/ Next
    \/ \E c \in BagToSet(calls) : SendFault(c)
    \/ \E c \in BagToSet(calls) : RecvFault(c)

SpecFault == Init /\ [][NextFault]_vars

\* runs of append, send, queue_receive and receive under a fair scheduler
NextLive ==
    \/ \E c \in 1..MaxCap : New(c)
    \/ \E api \in {"append", "send"}, to \in Timeouts : Send(api, to, NVals, FALSE)
    \/ \E c \in BagToSet(calls) : SendWake(c, FALSE)
    \/ \E c \in BagToSet(calls) : SendTimeout(c)
    \/ \E api \in {"queue_receive", "receive"}, to \in Timeouts : Receive(api, to)
    \/ \E c \in BagToSet(calls) : RecvWake(c)
    \/ \E c \in BagToSet(calls) : RecvTimeout(c)

\* the calls that wait forever: append(v, None), send(v), queue_receive(None), receive()
ForeverCalls ==
    {Call("send", api, v, "none") : api \in {"append", "send"}, v \in Values}
    \cup {Call("recv", api, 0, "none") : api \in {"queue_receive", "receive"}}

InCalls(c) == BagIn(c, calls)

\* the kernel wakes a task that waits forever once its call can complete
Wake(c) == InCalls(c) /\ (SendWake(c, FALSE) \/ RecvWake(c))

SpecLive == Init /\ [][NextLive]_vars /\ \A c \in ForeverCalls : WF_vars(Wake(c))

\* runs of the SyncCell alone
SpecCell == Init /\ [][NextCell]_vars

\* runs of a ComposedStream over two legs
SpecComposed == Init /\ [][NextComposed]_vars

\* ---- properties ----
TypeOK ==
    /\ kernel.state \in {"none", "live", "deleted", "null"}
    /\ Len(kernel.items) <= kernel.cap
    /\ nextv \in 1..(NValsOrder + 1)

\* a successful receive (by a task, by clear or by drop) takes effect in this step
RecvStep == delivered' # delivered /\ nrecv' = nrecv + 1

\* the value that step hands out
Handed(v) == delivered'[v] = delivered[v] + 1

\* a send call completes in this step
SendReturns == last' # last /\ last'.api \in SendApis

InQueue(v) == Cardinality({i \in 1..Len(kernel.items) : Resident[i] = v})

\* C1 (as stated): whenever append(v) returned Ok and the next completed call is a
\* successful queue_receive, that receive returns Some(v); and len() is the number
\* of successful sends minus the number of successful receives.
C1_NextReceiveReturnsAppended ==
    /\ [](kernel.state = "live" => len = Len(sent) - nrecv)
    /\ [][(/\ last.api = "append" /\ last.kind = "Ok"
           /\ last' # last /\ last'.api = "queue_receive" /\ last'.kind = "Some")
          => last'.v = last.arg]_vars

\* C1 (amended): the same on a queue that was empty when the append took effect;
\* on any queue the receive returns the item at the front, unmodified; len() is
\* the number of successful sends minus the number of successful receives.
C1_AppendThenReceive ==
    /\ [](kernel.state = "live" => len = Len(sent) - nrecv)
    /\ [][(/\ last.api = "append" /\ last.kind = "Ok"
           /\ last' # last /\ last'.api = "queue_receive" /\ last'.kind = "Some")
          => /\ len = 1 => last'.v = last.arg
             /\ last'.v = Head(Resident)
             /\ last'.v \in Range(sent)]_vars

C1_Witness ==
    /\ last = Res("queue_receive", "Some", 1)
    /\ sent = <<1>>
    /\ len = 0

\* C2: while no prepend has succeeded, the k-th successful receive hands out the
\* value of the k-th successful append, whatever the interleaving of the calls.
C2_Fifo ==
    [][(prepends' = 0 /\ RecvStep)
       => /\ nrecv + 1 <= Len(sent)
          /\ Handed(sent[nrecv + 1])]_vars

C2_Witness ==
    /\ prepends = 0
    /\ Len(sent) = NValsOrder
    /\ nrecv = NValsOrder
    /\ last = Res("queue_receive", "Some", sent[NValsOrder])

C4_EmptyReceiveZero ==
    [][(/\ ~HasItem(kernel)
        /\ \/ \E api \in RecvApis \ {"peek"} : Receive(api, "zero")
           \/ \E to \in Timeouts : Receive("try_receive", to))
       => /\ last'.kind = "None"
          /\ calls' = calls
          /\ kernel' = kernel
          /\ len' = 0
          /\ delivered' = delivered]_vars

C4_Witness ==
    /\ last = Res("try_receive", "None", 0)
    /\ kernel.state = "live"
    /\ len = 0
    /\ calls = EmptyBag

\* the value of the latest successful prepend not yet followed by a receive
LatestFronted == sent[CHOOSE i \in 1..Len(sent) :
                        /\ sent[i] \in fronted
                        /\ \A j \in (i + 1)..Len(sent) : sent[j] \notin fronted]

\* C5 (as stated): the next successful receive after a successful prepend(p)
\* returns p.
C5_NextReceiveReturnsPrepended ==
    [][(RecvStep /\ fronted # {}) => \A p \in fronted : Handed(p)]_vars

\* C5 (amended): a successful prepend(p) puts p in front of the items already
\* queued, which keep their order; the next successful receive returns the value
\* of the latest successful prepend, so it returns p unless another prepend
\* succeeded in between.
C5_PrependGoesFirst ==
    [][/\ (prepends' = prepends + 1) => Resident' = <<last'.arg>> \o Resident
       /\ (RecvStep /\ fronted # {}) => Handed(LatestFronted)
       /\ (RecvStep /\ Cardinality(fronted) = 1) => \A p \in fronted : Handed(p)]_vars

C5_Witness ==
    /\ prepends = 1
    /\ sent = <<1, 2, 3>>
    /\ last = Res("queue_receive", "Some", 3)
    /\ Resident = <<1, 2>>

\* C6: every value whose send succeeded is in the queue or was handed out by one
\* receive, never both and never twice; a value whose send failed is with its
\* sender only: not queued, not handed out; and nothing else is ever handed out.
C6_NoLossNoDuplication ==
    \A v \in AllVals :
        /\ v \in Range(sent) => InQueue(v) + delivered[v] = 1
        /\ v \in returned => /\ v \notin Range(sent)
                             /\ InQueue(v) = 0
                             /\ delivered[v] = 0
                             /\ destroyed[v] = 0
        /\ v \notin Range(sent) => InQueue(v) = 0 /\ delivered[v] = 0

C6_Witness ==
    /\ BagCardinality(calls) = NTasks
    /\ returned # {}
    /\ \E v \in Values : delivered[v] = 1

\* C7: Queue::new(c) gives len() = 0 and max_len() = c, and max_len() keeps that
\* value through every later call.
C7_CapacityFixed ==
    [][/\ \A c \in 1..MaxCap : New(c) => (len' = 0 /\ max_len' = c)
       /\ kernel.state # "none" => max_len' = max_len]_vars

C7_Witness ==
    /\ max_len = MaxCap
    /\ kernel.state = "live"
    /\ last.api = "prepend" /\ last.kind = "Ok"
    /\ nrecv > 0
    /\ \E v \in Values : destroyed[v] > 0

\* a clear call (of a task or of drop) returns in this step
ClearReturns(c) == c.op = "clear" /\ last' # last /\ calls' = calls (-) Bag1(c)

\* C8 (as stated): a clear during which no send succeeded returns with len() = 0
\* and every value that was queued when it was called destroyed exactly once.
C8_ClearDestroysAllQueued ==
    [][\A c \in BagToSet(calls) :
         (ClearReturns(c) /\ Len(sent) = c.nsent)
         => /\ len' = 0
            /\ \A v \in c.start : destroyed'[v] = 1]_vars

\* a turn of the loop of clear call c drains an item in this step
ClearTurn(c) == c.op = "clear" /\ c.api = "clear" /\ last' = last /\ RecvStep
                /\ calls' = (calls (-) Bag1(c)) (+) Bag1([c EXCEPT !.turns = @ + 1])

\* C8 (amended): a clear during which no send succeeded returns with len() = 0
\* after at most one receive per value queued at the call; every value clear
\* drains is destroyed in that turn of the loop, exactly once; every value queued
\* at the call was handed out once, to clear or to another receiver; and if no
\* other task received during the call, every value that was queued is destroyed
\* exactly once.
C8_ClearDrains ==
    [][\A c \in BagToSet(calls) :
         /\ ClearTurn(c)
            => \A v \in AllVals : Handed(v) => (destroyed[v] = 0 /\ destroyed'[v] = 1)
         /\ (ClearReturns(c) /\ Len(sent) = c.nsent)
            => /\ len' = 0
               /\ c.turns <= Cardinality(c.start)
               /\ \A v \in c.start : delivered'[v] = 1
               /\ \A v \in AllVals : destroyed'[v] <= delivered'[v]
               /\ (nrecv = c.nrecv + c.turns) => \A v \in c.start : destroyed'[v] = 1]_vars

C8_Witness ==
    /\ last = Res("clear", "Unit", 0)
    /\ max_len = MaxCap
    /\ len = 0
    /\ \A v \in Values : destroyed[v] = 1

\* C9: drop drains the queue, destroying each resident value once, and only then
\* releases the kernel handle; the handle is released once and no kernel call is
\* made on it afterwards.
C9_DropDrainsThenDeletes ==
    /\ [](/\ deletes <= 1
          /\ ~uad
          /\ kernel.state = "deleted" <=> deletes = 1
          /\ kernel.state = "deleted" => calls = EmptyBag
          /\ \A v \in AllVals : destroyed[v] <= 1)
    /\ [][/\ deletes' # deletes => len = 0
          /\ kernel.state = "deleted" => kernel' = kernel
          /\ \A c \in BagToSet(calls) :
               (ClearReturns(c) /\ c.api = "drop")
               => \A v \in c.start : destroyed'[v] = 1]_vars

C9_Witness ==
    /\ kernel.state = "deleted"
    /\ deletes = 1
    /\ last = Res("drop", "Unit", 0)
    /\ \E v \in Values : destroyed[v] = 1

\* a swap call returns in this step
SwapReturns(t) == cpc[t].busy /\ ~cpc'[t].busy

\* C10: in the order the swaps take effect, every swap returns the Option given to
\* the swap before it (to new, for the first) with the box content untouched, and
\* the next one returns its own argument; swap(None) on an empty cell returns None
\* and leaves the cell empty.
C10_SwapReturnsPrevious ==
    [][\A t \in Tasks : SwapReturns(t)
         => /\ clast'.ret = installed
            /\ clast'.arg = cpc[t].arg
            /\ installed' = cpc[t].arg
            /\ data' = into_ptr(cpc[t].arg)
            /\ clast'.ret.some => heap'[clast'.ret.box] \in CellVals
            /\ (~cpc[t].arg.some /\ data = 0) => (clast'.ret = None /\ data' = 0)]_vars

C10_Witness ==
    /\ clast = [arg |-> Some(2), ret |-> Some(1)]
    /\ heap[1] = "a" /\ heap[2] = "b"
    /\ data = 2

\* the boxes some task has leaked and not yet stored in the cell
Pending == {cpc[t].new : t \in {u \in Tasks : cpc[u].busy}} \ {0}

\* a swap takes effect while another task is inside swap
ConcurrentSwap(t) == SwapReturns(t) /\ \E u \in Tasks \ {t} : cpc[u].busy

\* C11: with swaps of several tasks in flight the cell points at nothing or at one
\* live box that no caller holds and no task is about to store; a box a swap
\* returned was installed before and is no longer in the cell; and a swap that
\* takes effect while others are in flight returns what the swap (or new) that
\* took effect just before it installed, and is the one the next will see: the
\* results are those of the swaps run one by one in the order of their exchanges.
C11_ConcurrentSwapsLinearize ==
    /\ [](/\ data \in {0} \cup Boxes
          /\ data = into_ptr(installed)
          /\ data # 0 => /\ heap[data] \in CellVals
                         /\ rets[data] = 0
                         /\ data \notin Pending
          /\ \A t, u \in Tasks : (t # u /\ cpc[t].busy /\ cpc[u].busy /\ cpc[t].new # 0)
                                  => cpc[t].new # cpc[u].new
          /\ \A b \in Boxes : rets[b] > 0 => /\ rets[b] = 1
                                             /\ heap[b] \in CellVals
                                             /\ b # data
                                             /\ b \notin Pending)
    /\ [][\A t \in Tasks : ConcurrentSwap(t)
            => /\ clast'.ret = installed
               /\ installed' = cpc[t].arg
               /\ clast'.ret.some => rets[clast'.ret.box] = 0
               /\ \A u \in Tasks \ {t} : cpc'[u] = cpc[u]]_vars

\* two swaps in flight took effect in the opposite order of their calls
C11_Witness ==
    /\ clast = [arg |-> Some(2), ret |-> Some(3)]
    /\ rets[1] = 1 /\ rets[3] = 1
    /\ data = 2

\* C12: after any operations the legs of the ComposedStream are in the state the
\* same calls made on them directly leave them in, and the latest operation
\* returned what the direct call returned; each send operation adds that call,
\* with its arguments, to the send leg and leaves the receive leg alone, each
\* receive operation the reverse; the object has no field but the two legs.
C12_ComposedDelegates ==
    /\ [](/\ composed = direct
          /\ cout = dout
          /\ DOMAIN composed = {"send_stream", "receive_stream"})
    /\ [][\A method \in SendMethods \cup RecvMethods : \A args \in Args(method) :
            ComposedOp(method, args)
            => /\ method \in SendMethods
                  => /\ composed'.send_stream.calls =
                            Append(composed.send_stream.calls, <<method, args>>)
                     /\ composed'.receive_stream = composed.receive_stream
               /\ method \in RecvMethods
                  => /\ composed'.receive_stream.calls =
                            Append(composed.receive_stream.calls, <<method, args>>)
                     /\ composed'.send_stream = composed.send_stream]_vars

C12_Witness ==
    /\ composed.send_stream.calls = <<<<"send_vec_timeout", <<<<1, 2>>, "finite", "uf">>>>>>
    /\ composed.receive_stream.calls = <<<<"receive_slice_timeout", <<2, "zero", "uf">>>>>>
    /\ cout = <<"R", 0, "receive_slice_timeout", <<2, "zero", "uf">>>>

\* the byte budget of a preset
Budget(which) == IF which = "1k" THEN 1024 ELSE 16384

\* C13: a queue made by create_stream holds at least floor(budget / size) + 1
\* elements, budget being 1024 for QueueCreator1k and 16384 for QueueCreator16k.
C13_PresetCapacityAtLeast ==
    creator # "none" =>
        /\ max_len >= (Budget(creator) \div kernel.size) + 1
        /\ kernel.cap >= (Budget(creator) \div kernel.size) + 1

\* C20: a queue made by create_stream for an element at least as large as the
\* preset's byte budget has capacity exactly 1.
C20_PresetCapacityOneWhenLarge ==
    (creator # "none" /\ kernel.size >= Budget(creator)) =>
        (max_len = 1 /\ kernel.cap = 1)

\* C14: while a handle of the pair is held the one queue is live, not being
\* dropped and not released, and the Arc counts the handles held; what a receive
\* through the receiver hands out is the front of what was sent through the
\* sender; dropping a handle while the other is held changes nothing in the queue;
\* the kernel handle is released once, after the last handle was dropped and the
\* queue drained, and never again.
C14_PairSharesOneQueue ==
    /\ [](creator # "none" =>
            /\ strong = Cardinality(handles)
            /\ handles # {} => (kernel.state = "live" /\ dropidx = 0 /\ deletes = 0)
            /\ deletes <= 1
            /\ ~uad)
    /\ [][/\ RecvStep /\ handles # {}
             => \A v \in AllVals : Handed(v) => (v \in Range(sent) /\ v = Head(Resident))
          /\ \A h \in {"sender", "receiver"} :
               (DropHandle(h) /\ handles # {h})
               => (kernel' = kernel /\ destroyed' = destroyed /\ dropidx' = 0
                   /\ deletes' = 0 /\ calls' = calls)
          /\ deletes' # deletes
             => (deletes' = 1 /\ handles = {} /\ len = 0 /\ kernel'.state = "deleted")]_vars

C14_Witness ==
    /\ handles = {}
    /\ kernel.state = "deleted"
    /\ deletes = 1
    /\ sent = <<1, 2>>
    /\ delivered[1] = 1 /\ destroyed[1] = 0
    /\ destroyed[2] = 1

\* C15: no Queue exists whose kernel handle is the null handle of a failed
\* queue_create, and no kernel call is ever made on such a handle.
C15_NoQueueOnNullHandle ==
    /\ kernel.state # "null"
    /\ ~nullops

\* a receive call completes in this step
RecvReturns == last' # last /\ last'.api \in RecvApis

\* C16: send returns () only in the step its value is appended to the queue, and
\* panics when the kernel call fails; receive returns only the value a successful
\* kernel receive took from the front, and panics when the kernel call fails;
\* send_timeout, receive_timeout and try_receive never panic: a failed send_timeout
\* returns Some of its value, a failed receive_timeout or try_receive None.
C16_ForeverPanicsTimedReports ==
    [][/\ (SendReturns /\ last'.api = "send")
          => /\ last'.kind \in {"Unit", "Panic"}
             /\ last'.kind = "Unit" <=> sent' = Append(sent, last'.arg)
             /\ last'.kind = "Unit" => Resident' = Append(Resident, last'.arg)
             /\ last'.kind = "Panic" => (kernel' = kernel /\ last'.arg \notin returned')
       /\ (RecvReturns /\ last'.api = "receive")
          => /\ last'.kind \in {"Val", "Panic"}
             /\ last'.kind = "Val" <=> RecvStep
             /\ last'.kind = "Val" => (last'.v = Head(Resident) /\ Handed(last'.v))
             /\ last'.kind = "Panic" => kernel' = kernel
       /\ (SendReturns /\ last'.api = "send_timeout")
          => /\ last'.kind \in {"None", "Some"}
             /\ last'.kind = "None" <=> sent' = Append(sent, last'.arg)
             /\ last'.kind = "Some" => (last'.v = last'.arg /\ kernel' = kernel)
       /\ (RecvReturns /\ last'.api \in {"receive_timeout", "try_receive"})
          => /\ last'.kind \in {"Some", "None"}
             /\ last'.kind = "Some" <=> RecvStep
             /\ last'.kind = "None" => kernel' = kernel]_vars

C16_Witness ==
    /\ last.api = "send" /\ last.kind = "Panic" /\ last.arg = 2
    /\ kernel.state = "live"
    /\ Resident = <<1>>
    /\ len = max_len

\* the boxes installed in the cell so far, by new or by a swap that took effect
Installed == {b \in Boxes : heap[b] # "unalloc" /\ b \notin Pending}

\* C17: every box installed in the cell is, at any time, in exactly one place: in
\* the cell, with the one swap call that returned it, or destroyed by the drop of
\* the cell; once the cell is dropped none is left in it, so each was returned
\* by exactly one swap or destroyed exactly once, and only the drop of the cell
\* destroys.
C17_InstalledOwnedOnce ==
    /\ [](\A b \in Installed :
            /\ rets[b] + frees[b] + (IF data = b THEN 1 ELSE 0) = 1
            /\ frees[b] = 1 <=> heap[b] = "freed"
            /\ frees[b] = 1 => cstate = "dropped")
    /\ [](cstate = "dropped" => (data = 0 /\ \A b \in Installed : rets[b] + frees[b] = 1))
    /\ [][\A b \in Boxes : /\ rets'[b] >= rets[b]
                           /\ frees'[b] >= frees[b]
                           /\ frees'[b] # frees[b] => (CellDrop /\ data = b)]_vars

C17_Witness ==
    /\ cstate = "dropped"
    /\ rets[1] = 1 /\ rets[2] = 1
    /\ frees[3] = 1 /\ heap[3] = "freed"
    /\ frees[1] = 0 /\ frees[2] = 0

\* a peek call completes in this step
PeekReturns == last' # last /\ last'.api = "peek"

\* a clear (of a task or of drop) is draining the queue
Clearing == \E c \in BagToSet(calls) : c.op = "clear"

\* C18: a peek that returns Some(v) found the queue non-empty, v is the value at
\* its front, and the queue, its length, the record of what was handed out and of
\* what was destroyed are as before, so v is still at the front; a receive hands
\* out the value at the front, so the receive that follows peeks, with no clear
\* draining in between, returns what they returned; peek with timeout zero on an
\* empty queue returns None at once and changes nothing.
C18_PeekLeavesQueue ==
    [][/\ (PeekReturns /\ last'.kind = "Some")
          => /\ HasItem(kernel)
             /\ last'.v = Head(Resident)
             /\ kernel' = kernel
             /\ len' = len
             /\ Resident' = Resident
             /\ last'.v = Head(Resident')
             /\ delivered' = delivered
             /\ destroyed' = destroyed
       /\ (PeekReturns /\ last'.kind # "Some")
          => (last'.kind = "None" /\ ~HasItem(kernel) /\ kernel' = kernel)
       /\ (RecvReturns /\ last'.api # "peek" /\ RecvStep)
          => (last'.v = Head(Resident) /\ Handed(Head(Resident)))
       /\ (/\ last.api = "peek" /\ last.kind = "Some" /\ ~Clearing
           /\ RecvReturns /\ last'.kind \in {"Some", "Val"})
          => last'.v = last.v
       /\ (~HasItem(kernel) /\ Receive("peek", "zero"))
          => (last' = Res("peek", "None", 0) /\ calls' = calls /\ kernel' = kernel)]_vars

C18_Witness ==
    /\ last = Res("peek", "Some", 1)
    /\ Resident = <<1, 2>>
    /\ nrecv = 0

\* C19: send and receive never return without success; and a task suspended in a
\* call that waits forever returns once the queue has what it waits for (an item
\* for a receiver, a free slot for a sender), unless another task takes it first.
C19_BlockedCallsReturn ==
    /\ [](last.api = "send" => last.kind = "Unit")
    /\ [](last.api = "receive" => last.kind = "Val")
    /\ \A c \in ForeverCalls :
         (InCalls(c) /\ (IF c.op = "recv" THEN HasItem(kernel) ELSE HasRoom(kernel)))
         ~> (~InCalls(c) \/ (IF c.op = "recv" THEN ~HasItem(kernel) ELSE ~HasRoom(kernel)))

C19_Witness ==
    /\ InCalls(Call("send", "send", 2, "none"))
    /\ HasRoom(kernel)
    /\ delivered[1] = 1
    /\ last = Res("receive", "Val", 1)

====
